---- MODULE Spec2Model ----
(***************************************************************************)
(* Model of backend/main.py: the /simulate endpoint run_simulation, a      *)
(* Monte Carlo simulation of Geometric Brownian Motion.                    *)
(*                                                                         *)
(* Numbers.  The program computes in IEEE-754 binary64.  The model keeps   *)
(* the structure of that format and shrinks its parameters: a float is an  *)
(* integer count of units of 2^-FracBits whose magnitude has at most       *)
(* MantBits significant bits and is at most MaxFinite, or one of Inf,      *)
(* -Inf, NaN.  Every operation rounds its exact result to the nearest      *)
(* float, ties to even, overflows to Inf and underflows gradually to 0, as *)
(* binary64 does.  Magnitudes below 2^(MantBits-1) units are the           *)
(* subnormals.  Signed zeros are not distinguished.                        *)
(***************************************************************************)
EXTENDS Integers, Sequences, FiniteSets, TLC

---------------------------------------------------------------------------
(* The float format *)

MantBits == 3
FracBits == 3
MaxExp == 4

One == 2^FracBits
Half == 2^(FracBits - 1)
MaxFinite == (2^MantBits - 1) * 2^MaxExp
MinNormal == 2^(MantBits - 1)
Inf == 2 * MaxFinite
NegInf == 0 - Inf
NaN == 4 * MaxFinite

Abs(x) == IF x < 0 THEN 0 - x ELSE x
Sign(x) == IF x < 0 THEN 0 - 1 ELSE IF x > 0 THEN 1 ELSE 0

IsNaN(x) == x = NaN
IsInf(x) == x = Inf \/ x = NegInf
IsFinite(x) == ~IsNaN(x) /\ ~IsInf(x)

FiniteFloats ==
  { s * m * 2^e : s \in {0 - 1, 1}, m \in 0..(2^MantBits - 1), e \in 0..MaxExp }

(* Spacing of the floats around a magnitude whose integer part is q. *)
Ulp(q) ==
  LET e == CHOOSE k \in 0..16 :
             /\ q < 2^(MantBits + k)
             /\ (k = 0 \/ q >= 2^(MantBits + k - 1))
  IN 2^e

(* num/den >= 0 rounded to the nearest float, ties to even mantissa. *)
RoundPos(num, den) ==
  LET ulp  == Ulp(num \div den)
      lo   == (num \div (den * ulp)) * ulp
      rem2 == 2 * (num - lo * den)
      mid2 == den * ulp
      r    == IF rem2 < mid2 THEN lo
              ELSE IF rem2 > mid2 THEN lo + ulp
              ELSE IF (lo \div ulp) % 2 = 0 THEN lo ELSE lo + ulp
  IN IF r > MaxFinite THEN Inf ELSE r

(* num/den (den > 0) rounded to the nearest float. *)
Round(num, den) ==
  IF num < 0 THEN 0 - RoundPos(0 - num, den) ELSE RoundPos(num, den)

(* Python int -> float. *)
IntToFloat(n) == Round(n * One, 1)

Neg(a) == IF IsNaN(a) THEN NaN ELSE 0 - a

Add(a, b) ==
  IF IsNaN(a) \/ IsNaN(b) THEN NaN
  ELSE IF IsInf(a) /\ IsInf(b) THEN (IF a = b THEN a ELSE NaN)
  ELSE IF IsInf(a) THEN a
  ELSE IF IsInf(b) THEN b
  ELSE Round(a + b, 1)

Sub(a, b) == Add(a, Neg(b))

Mul(a, b) ==
  IF IsNaN(a) \/ IsNaN(b) THEN NaN
  ELSE IF IsInf(a) \/ IsInf(b)
       THEN (IF a = 0 \/ b = 0 THEN NaN ELSE Sign(a) * Sign(b) * Inf)
  ELSE Round(a * b, One)

(* a / b for b # 0 (the program only divides by validated positive counts). *)
Div(a, b) ==
  IF IsNaN(a) \/ IsNaN(b) THEN NaN
  ELSE IF IsInf(a) /\ IsInf(b) THEN NaN
  ELSE IF IsInf(a) THEN Sign(a) * Sign(b) * Inf
  ELSE IF IsInf(b) THEN 0
  ELSE Round(Sign(b) * a * One, Abs(b))

(* x * (num/den) for a constant 0 <= num/den <= 1 that is taken as exact. *)
MulRat(x, num, den) ==
  IF IsNaN(x) THEN NaN
  ELSE IF IsInf(x) THEN (IF num = 0 THEN NaN ELSE x)
  ELSE Round(x * num, den)

(* IEEE comparisons: every comparison with NaN is false. *)
FGt(a, b) == ~IsNaN(a) /\ ~IsNaN(b) /\ a > b
FGe(a, b) == ~IsNaN(a) /\ ~IsNaN(b) /\ a >= b
FLt(a, b) == FGt(b, a)
FLe(a, b) == FGe(b, a)
FEq(a, b) == ~IsNaN(a) /\ ~IsNaN(b) /\ a = b

(* Python float ** 2: the rounded square; "raise" stands for OverflowError, *)
(* which Python raises when a finite base has a square above MaxFinite.    *)
PowRaises(a) == IsFinite(a) /\ Mul(a, a) = Inf
Pow2(a) == Mul(a, a)

(* np.sqrt, correctly rounded. *)
Sqrt(a) ==
  IF IsNaN(a) \/ a < 0 THEN NaN
  ELSE IF a = Inf THEN Inf
  ELSE LET x  == a * One
           lo == CHOOSE f \in FiniteFloats :
                   /\ f >= 0 /\ f * f <= x
                   /\ \A g \in FiniteFloats : (g >= 0 /\ g * g <= x) => g <= f
           hi == CHOOSE f \in FiniteFloats \cup {Inf} :
                   /\ f > lo
                   /\ \A g \in FiniteFloats : g > lo => f <= g
       IN IF lo * lo = x THEN lo
          ELSE IF (lo + hi) * (lo + hi) > 4 * x THEN lo ELSE hi

(* np.exp, correctly rounded: e^(x/One) * One to the nearest float. *)
Exp(x) ==
  IF IsNaN(x) THEN NaN
  ELSE IF x >= 24 THEN Inf
  ELSE IF x <= 0 - 24 THEN 0
  ELSE CASE x = 0 - 20 -> 1 [] x = 0 - 16 -> 1 [] x = 0 - 14 -> 1
         [] x = 0 - 12 -> 2 [] x = 0 - 10 -> 2 [] x = 0 - 8 -> 3
         [] x = 0 - 7 -> 3  [] x = 0 - 6 -> 4  [] x = 0 - 5 -> 4
         [] x = 0 - 4 -> 5  [] x = 0 - 3 -> 5  [] x = 0 - 2 -> 6
         [] x = 0 - 1 -> 7  [] x = 0 -> 8      [] x = 1 -> 10
         [] x = 2 -> 10     [] x = 3 -> 12     [] x = 4 -> 14
         [] x = 5 -> 14     [] x = 6 -> 16     [] x = 7 -> 20
         [] x = 8 -> 20     [] x = 10 -> 28    [] x = 12 -> 32
         [] x = 14 -> 48    [] x = 16 -> 56    [] x = 20 -> 96

---------------------------------------------------------------------------
(* numpy reductions used by the endpoint *)

(* np.add.reduce over one row: sequential for fewer than 8 elements. *)
RECURSIVE SumFrom(_, _, _)
SumFrom(row, i, acc) ==
  IF i > Len(row) THEN acc ELSE SumFrom(row, i + 1, Add(acc, row[i]))

(* np.mean of one row: the sum divided by the element count. *)
Mean(row) == Div(SumFrom(row, 2, row[1]), IntToFloat(Len(row)))

(* np.sort: ascending, NaN last. *)
Sorted(row) == SortSeq(row, LAMBDA a, b : a < b)

HasNaN(row) == \E i \in 1..Len(row) : IsNaN(row[i])

(* numpy's _lerp(a, b, t) for t = gnum/100. *)
Lerp(a, b, gnum) ==
  LET diff == Sub(b, a)
  IN IF 2 * gnum >= 100
     THEN Sub(b, MulRat(diff, 100 - gnum, 100))
     ELSE Add(a, MulRat(diff, gnum, 100))

(* np.percentile(row, q), method "linear" (numpy 1.22 and later): the     *)
(* virtual index (n-1)*q/100 splits into the order statistic below it and *)
(* the fraction gamma; the two neighbours are interpolated by _lerp.      *)
Percentile(row, q) ==
  LET n    == Len(row)
      s    == Sorted(row)
      vnum == (n - 1) * q
      prev == vnum \div 100
      next == IF prev + 1 > n - 1 THEN n - 1 ELSE prev + 1
  IN IF HasNaN(row) THEN NaN
     ELSE Lerp(s[prev + 1], s[next + 1], vnum % 100)

(* np.median: the mean of the middle one or two order statistics. *)
Median(row) ==
  LET n == Len(row)
      s == Sorted(row)
  IN IF HasNaN(row) THEN NaN
     ELSE IF n % 2 = 1 THEN Mean(<<s[(n + 1) \div 2]>>)
     ELSE Mean(<<s[n \div 2], s[n \div 2 + 1]>>)

(* Linspace without the endpoint: N + 1 points of step T / (N + 1) *)
LinspaceNoEndpoint(T, N) ==
  LET step == Div(Sub(T, 0), IntToFloat(N + 1))
  IN [k \in 1..(N + 1) |-> Add(Mul(IntToFloat(k - 1), step), 0)]

(* np.linspace(0, T, N + 1): arange(0, N + 1) * step with step = T / N,   *)
(* or (arange / N) * T when the step rounds to zero; the last entry is    *)
(* then overwritten with T.                                               *)
Linspace(T, N) ==
  LET div   == IntToFloat(N)
      delta == Sub(T, 0)
      step  == Div(delta, div)
      y(i)  == IF step = 0
               THEN Mul(Div(IntToFloat(i), div), delta)
               ELSE Mul(IntToFloat(i), step)
  IN [k \in 1..(N + 1) |-> IF k = N + 1 THEN T ELSE Add(y(k - 1), 0)]

(* Transpose that keeps at most two paths *)
TransposeCapped(grid, N, M) ==
  [i \in 1..(IF M > 2 THEN 2 ELSE M) |-> [k \in 1..(N + 1) |-> grid[k][i]]]

(* paths.T.tolist() *)
Transpose(grid, N, M) ==
  [i \in 1..M |-> [k \in 1..(N + 1) |-> grid[k][i]]]

---------------------------------------------------------------------------
(* Bounds of the model *)

MaxN == 3
MaxM == 3

---------------------------------------------------------------------------
(* State *)

VARIABLES
  pc,       \* pc[c]: where request c stands in run_simulation
  params,   \* params[c]: the SimulationParams of request c
  dt,       \* dt[c]: T / N
  paths,    \* paths[c]: the (N+1) x M grid; paths[c][t+1][col] is paths[t, col-1]
  Z,        \* Z[c]: the N x M matrix of standard-normal draws
  t,        \* t[c]: the loop variable of the generation loop
  pending,  \* pending[c]: the columns of row t not yet written
  stats,    \* stats[c]: the statistics and time points
  result,   \* result[c]: what the call returned or raised
  rng,      \* the position of numpy's process-wide generator (np.random)
  rng0      \* the generator's position when the process started

vars == <<pc, params, dt, paths, Z, t, pending, stats, result, rng, rng0>>

CallIds == {1, 2}
Other(c) == 3 - c

(* The output stream of the process-wide generator: a fixed cyclic stream *)
(* of finite floats; the generator's state is the position in it.         *)
ZStream ==
  << 0, 0, 0, 8, 0, 0, 0 - 8, 0, 8, 8, 0, 8, 0 - 8, 0, 0 - 8, 8, 0, 0 - 8,
     0 - 8, 8, 8, 8, 0 - 8, 8, 0 - 8, 0 - 8, 0 - 8 >>
Period == Len(ZStream)
Seeds == 0..(Period - 1)

RngOutput(pos) == ZStream[(pos % Period) + 1]
RngAdvance(pos, k) == (pos + k) % Period

(* np.random.standard_normal((N, M)): N*M successive outputs, row by row. *)
StandardNormal(pos, N, M) ==
  [r \in 1..N |-> [col \in 1..M |-> RngOutput(pos + (r - 1) * M + (col - 1))]]

None == [kind |-> "none"]

HTTPException ==
  [kind |-> "HTTPException", status_code |-> 400,
   detail |-> "Invalid simulation parameters. Ensure values are positive and sigma >= 0."]

OverflowError == [kind |-> "OverflowError"]

SimulationParams(S0, mu, sigma, T, N, M) ==
  [initialPrice |-> S0, expectedReturn |-> mu, volatility |-> sigma,
   timeHorizon |-> T, numSteps |-> N, numPaths |-> M]

NonFinite == {NaN, Inf, NegInf}

(* Requests of the single-call specification: finite parameters on both  *)
(* sides of every validation condition, and requests with one non-finite *)
(* float among otherwise valid parameters.                               *)
FiniteParams ==
  { SimulationParams(S0, mu, sigma, T, N, M) :
      S0 \in {0 - 8, 0, 6, 8, 112},
      mu \in {0 - 8, 0, 8},
      sigma \in {0 - 1, 0, 8, 64},
      T \in {0, 1, 8, 40},
      N \in 0..MaxN,
      M \in 0..MaxM }

NonFiniteParams ==
  UNION { { SimulationParams(x, 0, sigma, 8, N, M),
            SimulationParams(8, x, sigma, 8, N, M),
            SimulationParams(8, 0, x, 8, N, M),
            SimulationParams(8, 0, sigma, x, N, M) } :
          x \in NonFinite, sigma \in {0, 8}, N \in 1..MaxN, M \in 1..MaxM }

ParamSpace == FiniteParams \cup NonFiniteParams

(* Valid with the volatility check left out *)
ValidNoSigma(p) ==
  /\ FGt(p.initialPrice, 0)
  /\ FGt(p.timeHorizon, 0)
  /\ p.numSteps > 0
  /\ p.numPaths > 0

(* all([S0 > 0, T > 0, N > 0, M > 0, sigma >= 0]) *)
Valid(p) ==
  /\ FGt(p.initialPrice, 0)
  /\ FGt(p.timeHorizon, 0)
  /\ p.numSteps > 0
  /\ p.numPaths > 0
  /\ FGe(p.volatility, 0)

---------------------------------------------------------------------------
(* The generation step *)

(* drift = (mu - 0.5 * sigma**2) * dt *)
Drift(p, dtv) ==
  Mul(Sub(p.expectedReturn, Mul(Half, Pow2(p.volatility))), dtv)

(* Diffusion with the volatility factor left out *)
DiffusionNoSigma(p, dtv, z) == Mul(Sqrt(dtv), z)

(* diffusion = sigma * np.sqrt(dt) * Z[t-1], one column of it *)
Diffusion(p, dtv, z) == Mul(Mul(p.volatility, Sqrt(dtv)), z)

(* ColUpdate as a plain Euler step: paths[t-1] * (1 + drift + diffusion) *)
ColUpdateEuler(p, dtv, prevRow, zRow, col) ==
  Mul(prevRow[col],
      Add(One, Add(Drift(p, dtv), Diffusion(p, dtv, zRow[col]))))

(* ColUpdate reading the previous price of the neighbouring column *)
ColUpdateNeighbour(p, dtv, prevRow, zRow, col) ==
  Mul(prevRow[(col % p.numPaths) + 1],
      Exp(Add(Drift(p, dtv), Diffusion(p, dtv, zRow[col]))))

(* paths[t] = paths[t-1] * np.exp(drift + diffusion), one column of it *)
ColUpdate(p, dtv, prevRow, zRow, col) ==
  Mul(prevRow[col], Exp(Add(Drift(p, dtv), Diffusion(p, dtv, zRow[col]))))

RowUpdate(p, dtv, prevRow, zRow) ==
  [col \in 1..p.numPaths |-> ColUpdate(p, dtv, prevRow, zRow, col)]

AllCols(c) == 1..params[c].numPaths

---------------------------------------------------------------------------
(* Actions: the steps of run_simulation for request c *)

(* Validate placed after the allocation of the grid *)
ValidateAfterAllocate(c) ==
  /\ pc[c] = "validate"
  /\ paths' = [paths EXCEPT ![c] =
       [r \in 1..(params[c].numSteps + 1) |->
          [col \in 1..params[c].numPaths |-> 0]]]
  /\ IF Valid(params[c])
     THEN /\ pc' = [pc EXCEPT ![c] = "allocate"]
          /\ UNCHANGED result
     ELSE /\ pc' = [pc EXCEPT ![c] = "rejected"]
          /\ result' = [result EXCEPT ![c] = HTTPException]
  /\ UNCHANGED <<params, dt, Z, t, pending, stats, rng, rng0>>

(* lines 51-53 *)
Validate(c) ==
  /\ pc[c] = "validate"
  /\ IF Valid(params[c])
     THEN /\ pc' = [pc EXCEPT ![c] = "allocate"]
          /\ UNCHANGED result
     ELSE /\ pc' = [pc EXCEPT ![c] = "rejected"]
          /\ result' = [result EXCEPT ![c] = HTTPException]
  /\ UNCHANGED <<params, dt, paths, Z, t, pending, stats, rng, rng0>>

(* Allocate without paths[0] = S0 *)
AllocateZeros(c) ==
  /\ pc[c] = "allocate"
  /\ LET p == params[c] IN
       /\ dt' = [dt EXCEPT ![c] = Div(p.timeHorizon, IntToFloat(p.numSteps))]
       /\ paths' = [paths EXCEPT ![c] =
            [r \in 1..(p.numSteps + 1) |-> [col \in 1..p.numPaths |-> 0]]]
  /\ pc' = [pc EXCEPT ![c] = "draw"]
  /\ UNCHANGED <<params, Z, t, pending, stats, result, rng, rng0>>

(* lines 56-58 *)
Allocate(c) ==
  /\ pc[c] = "allocate"
  /\ LET p == params[c] IN
       /\ dt' = [dt EXCEPT ![c] = Div(p.timeHorizon, IntToFloat(p.numSteps))]
       /\ paths' = [paths EXCEPT ![c] =
            [r \in 1..(p.numSteps + 1) |->
               [col \in 1..p.numPaths |-> IF r = 1 THEN p.initialPrice ELSE 0]]]
  /\ pc' = [pc EXCEPT ![c] = "draw"]
  /\ UNCHANGED <<params, Z, t, pending, stats, result, rng, rng0>>

(* DrawZ with Z kept in one module-level variable *)
DrawZModuleLevel(c) ==
  /\ pc[c] = "draw"
  /\ LET p == params[c] IN
       /\ Z' = [d \in CallIds |-> StandardNormal(rng, p.numSteps, p.numPaths)]
       /\ rng' = RngAdvance(rng, p.numSteps * p.numPaths)
  /\ t' = [t EXCEPT ![c] = 1]
  /\ pending' = [pending EXCEPT ![c] = AllCols(c)]
  /\ pc' = [pc EXCEPT ![c] = "loop"]
  /\ UNCHANGED <<params, dt, paths, stats, result, rng0>>

(* line 61 *)
DrawZ(c) ==
  /\ pc[c] = "draw"
  /\ LET p == params[c] IN
       /\ Z' = [Z EXCEPT ![c] = StandardNormal(rng, p.numSteps, p.numPaths)]
       /\ rng' = RngAdvance(rng, p.numSteps * p.numPaths)
  /\ t' = [t EXCEPT ![c] = 1]
  /\ pending' = [pending EXCEPT ![c] = AllCols(c)]
  /\ pc' = [pc EXCEPT ![c] = "loop"]
  /\ UNCHANGED <<params, dt, paths, stats, result, rng0>>

(* line 65 when sigma**2 raises *)
RaiseOverflow(c) ==
  /\ pc[c] = "loop"
  /\ pending[c] = AllCols(c)
  /\ PowRaises(params[c].volatility)
  /\ pc' = [pc EXCEPT ![c] = "crashed"]
  /\ result' = [result EXCEPT ![c] = OverflowError]
  /\ UNCHANGED <<params, dt, paths, Z, t, pending, stats, rng, rng0>>

AfterRow(c) == IF t[c] = params[c].numSteps THEN "aggregate" ELSE "loop"

(* lines 64-67, one iteration as the whole-row operation it is written as *)
SimulateRow(c) ==
  /\ pc[c] = "loop"
  /\ pending[c] = AllCols(c)
  /\ ~PowRaises(params[c].volatility)
  /\ paths' = [paths EXCEPT ![c][t[c] + 1] =
                 RowUpdate(params[c], dt[c], paths[c][t[c]], Z[c][t[c]])]
  /\ t' = [t EXCEPT ![c] = t[c] + 1]
  /\ pc' = [pc EXCEPT ![c] = AfterRow(c)]
  /\ UNCHANGED <<params, dt, Z, pending, stats, result, rng, rng0>>

(* lines 64-67, one iteration element by element: numpy fixes no order in *)
(* which the elements of a whole-row operation are computed.              *)
SimulateCol(c, col) ==
  /\ pc[c] = "loop"
  /\ col \in pending[c]
  /\ ~PowRaises(params[c].volatility)
  /\ paths' = [paths EXCEPT ![c][t[c] + 1][col] =
                 ColUpdate(params[c], dt[c], paths[c][t[c]], Z[c][t[c]], col)]
  /\ IF pending[c] = {col}
     THEN /\ pending' = [pending EXCEPT ![c] = AllCols(c)]
          /\ t' = [t EXCEPT ![c] = t[c] + 1]
          /\ pc' = [pc EXCEPT ![c] = AfterRow(c)]
     ELSE /\ pending' = [pending EXCEPT ![c] = pending[c] \ {col}]
          /\ UNCHANGED <<t, pc>>
  /\ UNCHANGED <<params, dt, Z, stats, result, rng, rng0>>

(* Statistics with the two percentile ranks exchanged *)
StatisticsSwapped(p, grid) ==
  LET final_prices == grid[p.numSteps + 1]
      rows == 1..(p.numSteps + 1)
  IN [ mean_final_price |-> Mean(final_prices),
       median_final_price |-> Median(final_prices),
       percentile_5th_final |-> Percentile(final_prices, 95),
       percentile_95th_final |-> Percentile(final_prices, 5),
       mean_path |-> [r \in rows |-> Mean(grid[r])],
       percentile_5th_path |-> [r \in rows |-> Percentile(grid[r], 95)],
       percentile_95th_path |-> [r \in rows |-> Percentile(grid[r], 5)],
       time_points |-> Linspace(p.timeHorizon, p.numSteps) ]

(* lines 69-83 *)
Statistics(p, grid) ==
  LET final_prices == grid[p.numSteps + 1]
      rows == 1..(p.numSteps + 1)
  IN [ mean_final_price |-> Mean(final_prices),
       median_final_price |-> Median(final_prices),
       percentile_5th_final |-> Percentile(final_prices, 5),
       percentile_95th_final |-> Percentile(final_prices, 95),
       mean_path |-> [r \in rows |-> Mean(grid[r])],
       percentile_5th_path |-> [r \in rows |-> Percentile(grid[r], 5)],
       percentile_95th_path |-> [r \in rows |-> Percentile(grid[r], 95)],
       time_points |-> Linspace(p.timeHorizon, p.numSteps) ]

Aggregate(c) ==
  /\ pc[c] = "aggregate"
  /\ stats' = [stats EXCEPT ![c] = Statistics(params[c], paths[c])]
  /\ pc' = [pc EXCEPT ![c] = "shape"]
  /\ UNCHANGED <<params, dt, paths, Z, t, pending, result, rng, rng0>>

(* lines 85-98 *)
SimulationResult(p, grid, st) ==
  [ kind |-> "SimulationResult",
    time_points |-> st.time_points,
    sample_paths |-> Transpose(grid, p.numSteps, p.numPaths),
    mean_path |-> st.mean_path,
    percentile_5th_path |-> st.percentile_5th_path,
    percentile_95th_path |-> st.percentile_95th_path,
    mean_final_price |-> st.mean_final_price,
    median_final_price |-> st.median_final_price,
    percentile_5th |-> st.percentile_5th_final,
    percentile_95th |-> st.percentile_95th_final ]

Shape(c) ==
  /\ pc[c] = "shape"
  /\ result' = [result EXCEPT ![c] = SimulationResult(params[c], paths[c], stats[c])]
  /\ pc' = [pc EXCEPT ![c] = "done"]
  /\ UNCHANGED <<params, dt, paths, Z, t, pending, stats, rng, rng0>>

---------------------------------------------------------------------------
(* Specifications *)

InitCall(ps, seed) ==
  /\ params = ps
  /\ dt = [c \in CallIds |-> 0]
  /\ paths = [c \in CallIds |-> <<>>]
  /\ Z = [c \in CallIds |-> <<>>]
  /\ t = [c \in CallIds |-> 0]
  /\ pending = [c \in CallIds |-> {}]
  /\ stats = [c \in CallIds |-> None]
  /\ result = [c \in CallIds |-> None]
  /\ rng = seed
  /\ rng0 = seed

(* One request. *)
Init ==
  /\ pc = [c \in CallIds |-> IF c = 1 THEN "validate" ELSE "idle"]
  /\ \E p \in ParamSpace, seed \in Seeds :
       InitCall([c \in CallIds |-> p], seed)

Next ==
  \/ Validate(1)
  \/ Allocate(1)
  \/ DrawZ(1)
  \/ RaiseOverflow(1)
  \/ SimulateRow(1)
  \/ Aggregate(1)
  \/ Shape(1)

Spec == Init /\ [][Next]_vars

(* One request, the generation loop taken element by element. *)
ColsParamSpace ==
  { SimulationParams(S0, mu, sigma, 8, N, M) :
      S0 \in {8, 112}, mu \in {0, 8}, sigma \in {0 - 1, 0, 8, 64},
      N \in 1..MaxN, M \in 1..MaxM }

InitCols ==
  /\ pc = [c \in CallIds |-> IF c = 1 THEN "validate" ELSE "idle"]
  /\ \E p \in ColsParamSpace, seed \in Seeds :
       InitCall([c \in CallIds |-> p], seed)

NextCols ==
  \/ Validate(1)
  \/ Allocate(1)
  \/ DrawZ(1)
  \/ RaiseOverflow(1)
  \/ \E col \in 1..MaxM + 1 : SimulateCol(1, col)
  \/ Aggregate(1)
  \/ Shape(1)

SpecCols == InitCols /\ [][NextCols]_vars

(* Two requests served by two worker threads of one process. *)
TwoParamSpace ==
  { SimulationParams(8, 0, sigma, 8, N, M) :
      sigma \in {0 - 1, 8, 64}, N \in 1..2, M \in 1..2 }

InitTwo ==
  /\ pc = [c \in CallIds |-> "validate"]
  /\ \E p1 \in TwoParamSpace, p2 \in TwoParamSpace, seed \in Seeds :
       InitCall([c \in CallIds |-> IF c = 1 THEN p1 ELSE p2], seed)

NextTwo ==
  \E c \in CallIds :
    \/ Validate(c)
    \/ Allocate(c)
    \/ DrawZ(c)
    \/ RaiseOverflow(c)
    \/ SimulateRow(c)
    \/ Aggregate(c)
    \/ Shape(c)

SpecTwo == InitTwo /\ [][NextTwo]_vars

---------------------------------------------------------------------------
(* Shorthands for the properties *)

P1 == params[1]
S0 == P1.initialPrice
mu == P1.expectedReturn
sigma == P1.volatility
T == P1.timeHorizon
N == P1.numSteps
M == P1.numPaths

Returned == pc[1] = "done"
Rejected == pc[1] = "rejected"
FiniteInputs == IsFinite(S0) /\ IsFinite(mu) /\ IsFinite(sigma) /\ IsFinite(T)

(* paths[t, i] of the source, 0-based, for request 1 *)
Price(k, i) == paths[1][k + 1][i + 1]

(* rows of the grid that the generation loop has completed *)
RowsWritten ==
  IF pc[1] \in {"loop", "crashed"} THEN 0..(t[1] - 1)
  ELSE IF pc[1] \in {"aggregate", "shape", "done"} THEN 0..N
  ELSE IF pc[1] = "draw" THEN {0}
  ELSE {}

---------------------------------------------------------------------------
(* C1 *)

AnyConditionHolds ==
  \/ FLe(S0, 0) \/ FLe(T, 0) \/ N <= 0 \/ M <= 0 \/ FLt(sigma, 0)

NoResult ==
  /\ result[1] = HTTPException
  /\ stats[1] = None /\ paths[1] = <<>> /\ Z[1] = <<>>

(* C1, as claimed: the call is rejected with the invalid-parameters error  *)
(* and no result exactly when one of initialPrice <= 0, timeHorizon <= 0,  *)
(* numSteps <= 0, numPaths <= 0, volatility < 0 holds.                     *)
C1_AsClaimed ==
  pc[1] # "validate" =>
    /\ Rejected <=> AnyConditionHolds
    /\ Rejected => NoResult

(* C1, amended: the call is rejected with the invalid-parameters error and *)
(* no result exactly when one of the five conditions holds or one of       *)
(* initialPrice, timeHorizon, volatility is NaN (a NaN fails the checks    *)
(* S0 > 0, T > 0, sigma >= 0 without satisfying any of the conditions).    *)
C1_RejectsIffInvalidOrNaN ==
  pc[1] # "validate" =>
    /\ Rejected <=>
         (AnyConditionHolds \/ IsNaN(S0) \/ IsNaN(T) \/ IsNaN(sigma))
    /\ Rejected => NoResult

(* a call rejected for its negative volatility alone *)
C1_Witness ==
  /\ Rejected /\ NoResult
  /\ FLt(sigma, 0) /\ FGt(S0, 0) /\ FGt(T, 0) /\ N > 0 /\ M > 0

---------------------------------------------------------------------------
(* C2 *)

(* C2: a call is rejected only by its first step, with no grid allocated   *)
(* and the generator where it was; the grid is written only after          *)
(* validation passed, the generator is advanced only by the draw that      *)
(* follows the allocation, the statistics are computed only when the       *)
(* generation loop has written every row, and the result is built only     *)
(* from computed statistics: validate, generate, aggregate, shape.         *)
C2_ValidateFirstThenInOrder ==
  [][ /\ pc'[1] = "rejected" =>
           /\ pc[1] = "validate"
           /\ paths'[1] = <<>> /\ Z'[1] = <<>> /\ rng' = rng0
      /\ pc[1] = "validate" => pc'[1] \in {"allocate", "rejected"}
      /\ paths'[1] # paths[1] => pc[1] \in {"allocate", "loop"}
      /\ pc[1] = "allocate" => paths[1] = <<>> /\ rng = rng0
      /\ rng' # rng => pc[1] = "draw" /\ paths[1] # <<>>
      /\ pc[1] = "loop" => Z[1] # <<>>
      /\ stats'[1] # stats[1] =>
           /\ pc[1] = "aggregate" /\ t[1] = N + 1
           /\ result[1] = None
      /\ result'[1] # result[1] =>
           \/ pc'[1] \in {"rejected", "crashed"}
           \/ pc[1] = "shape" /\ stats[1] # None /\ pc'[1] = "done"
    ]_vars

(* a rejected call, with the generator where it started *)
C2_Witness == Rejected /\ rng = rng0 /\ paths[1] = <<>>

---------------------------------------------------------------------------
(* C3 *)

TimePoints == result[1].time_points

(* C3, as claimed: N+1 time points from 0 to T, strictly increasing, every *)
(* consecutive difference equal to T / N.                                  *)
C3_AsClaimed ==
  Returned =>
    /\ Len(TimePoints) = N + 1
    /\ FEq(TimePoints[1], 0)
    /\ FEq(TimePoints[N + 1], T)
    /\ \A k \in 1..N :
         /\ FLt(TimePoints[k], TimePoints[k + 1])
         /\ FEq(Sub(TimePoints[k + 1], TimePoints[k]), Div(T, IntToFloat(N)))

(* C3, amended: for a finite T whose step T/N is not below the smallest    *)
(* normal float, there are N+1 time points, the first 0, the last T,       *)
(* strictly increasing, and every consecutive difference equals T/N to     *)
(* within two units in the last place of T (not exactly).                  *)
C3_TimePointsWithinRounding ==
  (Returned /\ IsFinite(T) /\ T >= N * MinNormal) =>
    /\ Len(TimePoints) = N + 1
    /\ TimePoints[1] = 0
    /\ TimePoints[N + 1] = T
    /\ \A k \in 1..N :
         /\ TimePoints[k] < TimePoints[k + 1]
         /\ Abs(N * (TimePoints[k + 1] - TimePoints[k]) - T) <= 2 * N * Ulp(T)

(* three steps over T = 5.0: the points 0, 1.75, 3.5, 5.0 are spaced      *)
(* 1.75, 1.75, 1.5                                                        *)
C3_Witness ==
  /\ Returned /\ N = 3 /\ T = 40
  /\ TimePoints = <<0, 14, 28, 40>>

---------------------------------------------------------------------------
(* C4 *)

SamplePaths == result[1].sample_paths

---------------------------------------------------------------------------
(* C5 *)

MeanPath == result[1].mean_path
P5Path == result[1].percentile_5th_path
P95Path == result[1].percentile_95th_path

Row0Kept ==
  pc[1] \in {"draw", "loop", "crashed", "aggregate", "shape", "done"} =>
    paths[1][1] = [col \in 1..M |-> S0]

(* the mean m of n copies of the finite value v, as far as rounding lets it *)
(* be v: within n units in the last place, or Inf when the sum overflows    *)
MeanOfCopies(m, v, n) ==
  \/ m = Inf /\ n * v > MaxFinite
  \/ IsFinite(m) /\ Abs(m - v) <= n * Ulp(v)

(* C5, as claimed (already for finite parameters): row 0 is never          *)
(* overwritten, and sample_paths[i][0], mean_path[0], percentile_5th_path  *)
(* [0] and percentile_95th_path[0] all equal initialPrice exactly.         *)
C5_AsClaimed ==
  FiniteInputs =>
    /\ Row0Kept
    /\ Returned =>
         /\ \A i \in 1..M : SamplePaths[i][1] = S0
         /\ MeanPath[1] = S0
         /\ P5Path[1] = S0
         /\ P95Path[1] = S0

(* C5, amended: row 0 is never overwritten and sample_paths[i][0] equals   *)
(* initialPrice exactly for every path; for a finite initialPrice the two  *)
(* percentile series start at exactly initialPrice, and mean_path[0]       *)
(* equals initialPrice up to the rounding of the sum of numPaths copies    *)
(* (within numPaths units in the last place, infinite if the sum           *)
(* overflows), not exactly.                                                *)
C5_Row0IsInitialPrice ==
  /\ Row0Kept
  /\ Returned =>
       /\ \A i \in 1..M : SamplePaths[i][1] = S0
       /\ IsFinite(S0) =>
            /\ P5Path[1] = S0
            /\ P95Path[1] = S0
            /\ MeanOfCopies(MeanPath[1], S0, M)

(* three paths from 0.75: (0.75 + 0.75 + 0.75) / 3 rounds to 0.625 *)
C5_Witness ==
  /\ Returned /\ S0 = 6 /\ M = 3 /\ N >= 2
  /\ \A i \in 1..M : SamplePaths[i][1] = 6
  /\ P5Path[1] = 6 /\ P95Path[1] = 6
  /\ MeanPath[1] = 5

---------------------------------------------------------------------------
(* C6 *)

RowFinite(k) == \A i \in 0..(M - 1) : IsFinite(Price(k, i))

(* C6, as claimed (already for finite parameters): the 5th percentile      *)
(* never exceeds the 95th, at every time index and for the final row,      *)
(* whatever the grid holds.                                                *)
C6_AsClaimed ==
  (Returned /\ FiniteInputs) =>
    /\ \A k \in 0..N : FLe(P5Path[k + 1], P95Path[k + 1])
    /\ FLe(result[1].percentile_5th, result[1].percentile_95th)

(* C6, amended: at every time index whose row holds only finite values     *)
(* (no overflow to infinity, no NaN) the 5th percentile does not exceed     *)
(* the 95th, and likewise for the final-row scalars.                        *)
C6_PercentilesOrderedOnFiniteRows ==
  Returned =>
    /\ \A k \in 0..N :
         RowFinite(k) => FLe(P5Path[k + 1], P95Path[k + 1])
    /\ RowFinite(N) =>
         FLe(result[1].percentile_5th, result[1].percentile_95th)

(* a final row of three distinct finite prices, both percentiles strictly  *)
(* between its order statistics                                            *)
C6_Witness ==
  /\ Returned /\ M = 3 /\ RowFinite(N)
  /\ LET s == Sorted(paths[1][N + 1]) IN
       /\ s[1] < s[2] /\ s[2] < s[3]
       /\ s[1] < result[1].percentile_5th
       /\ result[1].percentile_5th < result[1].percentile_95th
       /\ result[1].percentile_95th < s[3]

---------------------------------------------------------------------------
(* C7 *)

(* initialPrice multiplied k times by exp(expectedReturn * dt) *)
RECURSIVE DriftCurve(_)
DriftCurve(k) ==
  IF k = 0 THEN S0
  ELSE Mul(DriftCurve(k - 1), Exp(Mul(mu, Div(T, IntToFloat(N)))))

ZeroVolatility == Returned /\ FiniteInputs /\ sigma = 0

(* C7, as claimed (for finite parameters): with volatility 0 every path    *)
(* holds initialPrice multiplied t times by exp(expectedReturn * dt), and  *)
(* the mean and both percentiles at t, and the four final statistics,      *)
(* equal that value.                                                       *)
C7_AsClaimed ==
  ZeroVolatility =>
    /\ \A k \in 0..N :
         /\ \A i \in 0..(M - 1) : FEq(Price(k, i), DriftCurve(k))
         /\ FEq(MeanPath[k + 1], DriftCurve(k))
         /\ FEq(P5Path[k + 1], DriftCurve(k))
         /\ FEq(P95Path[k + 1], DriftCurve(k))
    /\ FEq(result[1].mean_final_price, DriftCurve(N))
    /\ FEq(result[1].median_final_price, DriftCurve(N))
    /\ FEq(result[1].percentile_5th, DriftCurve(N))
    /\ FEq(result[1].percentile_95th, DriftCurve(N))

(* C7, amended: with volatility 0 and finite parameters every path holds,  *)
(* at every time index t, initialPrice multiplied t times by               *)
(* exp(expectedReturn * dt), whatever was drawn.  While that value is      *)
(* finite both percentiles equal it exactly; the mean equals it up to the  *)
(* rounding of the sum (within numPaths units in the last place, infinite  *)
(* if the sum overflows); the final median equals it unless the sum of the *)
(* two middle values overflows.                                            *)
C7_ZeroVolatilityIsDeterministic ==
  ZeroVolatility =>
    /\ \A k \in 0..N :
         /\ \A i \in 0..(M - 1) : Price(k, i) = DriftCurve(k)
         /\ IsFinite(DriftCurve(k)) =>
              /\ P5Path[k + 1] = DriftCurve(k)
              /\ P95Path[k + 1] = DriftCurve(k)
              /\ MeanOfCopies(MeanPath[k + 1], DriftCurve(k), M)
    /\ IsFinite(DriftCurve(N)) =>
         /\ result[1].percentile_5th = DriftCurve(N)
         /\ result[1].percentile_95th = DriftCurve(N)
         /\ MeanOfCopies(result[1].mean_final_price, DriftCurve(N), M)
         /\ \/ result[1].median_final_price = DriftCurve(N)
            \/ /\ result[1].median_final_price = Inf
               /\ M % 2 = 0 /\ 2 * DriftCurve(N) > MaxFinite

(* volatility 0 with a drift, several paths and steps, nonzero draws *)
C7_Witness ==
  /\ ZeroVolatility /\ mu # 0 /\ N >= 2 /\ M >= 2
  /\ \E r \in 1..N, col \in 1..M : Z[1][r][col] # 0
  /\ IsFinite(DriftCurve(N)) /\ DriftCurve(N) # S0
  /\ DriftCurve(1) # DriftCurve(2)

---------------------------------------------------------------------------
(* C8 *)

(* exp(drift + diffusion) of the step that writes row k of column i *)
GrowthFactor(k, i) ==
  Exp(Add(Mul(Sub(mu, Mul(Half, Mul(sigma, sigma))), dt[1]),
          Mul(Mul(sigma, Sqrt(dt[1])), Z[1][k][i + 1])))

(* C8, as claimed: for valid finite parameters every value of every path   *)
(* is strictly greater than 0, in every state of the generation loop and   *)
(* in the result.                                                          *)
C8_AsClaimed ==
  FiniteInputs =>
    \A k \in RowsWritten : \A i \in 0..(M - 1) : FGt(Price(k, i), 0)

(* C8, amended: for valid finite parameters no value of any path is ever   *)
(* negative (it is >= 0, or NaN after an overflow), and it is strictly     *)
(* positive as long as nothing underflows: price[t] > 0 whenever           *)
(* price[t-1] > 0, the factor exp(drift + diffusion) is > 0 and their      *)
(* exact product is at least the smallest positive float.                  *)
C8_PositiveUnlessUnderflow ==
  FiniteInputs =>
    \A k \in RowsWritten : \A i \in 0..(M - 1) :
      /\ IsNaN(Price(k, i)) \/ Price(k, i) >= 0
      /\ k >= 1 =>
           LET prev == Price(k - 1, i)
               g == GrowthFactor(k, i)
           IN ( /\ FGt(prev, 0) /\ FGt(g, 0)
                /\ (IsFinite(prev) /\ IsFinite(g)) => prev * g >= One )
              => FGt(Price(k, i), 0)

(* a returned grid of positive prices that moved in both directions *)
C8_Witness ==
  /\ Returned /\ FiniteInputs /\ FGt(sigma, 0) /\ N >= 2 /\ M >= 2
  /\ \A k \in 0..N : \A i \in 0..(M - 1) : FGt(Price(k, i), 0)
  /\ \E k \in 1..N : \E i \in 0..(M - 1) : Price(k, i) > Price(k - 1, i)
  /\ \E k \in 1..N : \E i \in 0..(M - 1) : Price(k, i) < Price(k - 1, i)

---------------------------------------------------------------------------
(* C9 *)

Cells(c) == params[c].numSteps * params[c].numPaths
HasDrawn(c) == Z[c] # <<>>

(* what request c draws when no other request has drawn before it *)
DrawsAlone(c) ==
  StandardNormal(rng0, params[c].numSteps, params[c].numPaths)

(* what request c draws when the other request has drawn before it *)
DrawsSecond(c) ==
  StandardNormal(RngAdvance(rng0, Cells(Other(c))),
                 params[c].numSteps, params[c].numPaths)

Moves(c) == pc'[c] # pc[c] \/ t'[c] # t[c]

(* C9, as claimed: no state is shared between two calls, so what a call    *)
(* draws is the same under every interleaving with the other call.         *)
C9_AsClaimed ==
  \A c \in CallIds : HasDrawn(c) => Z[c] = DrawsAlone(c)

(* C9, amended: each call owns its grid, its matrix of draws, its          *)
(* statistics and its result, and no step of one call changes them for the *)
(* other; the one piece of state the calls share is the position of the    *)
(* process-wide generator, which each call's draw reads and advances by    *)
(* N*M in one step.  A call therefore draws the N*M values at the start    *)
(* position if it draws first and those after the other call's N'*M'       *)
(* values if it draws second: its draws depend on the interleaving.        *)
C9_OnlyTheGeneratorIsShared ==
  [][ \A c \in CallIds :
        /\ ~Moves(c) =>
             /\ params'[c] = params[c] /\ dt'[c] = dt[c]
             /\ paths'[c] = paths[c] /\ Z'[c] = Z[c]
             /\ stats'[c] = stats[c] /\ result'[c] = result[c]
        /\ (Moves(c) /\ pc[c] # "draw") => rng' = rng
        /\ (Moves(c) /\ pc[c] = "draw") =>
             /\ rng' = RngAdvance(rng, Cells(c))
             /\ IF HasDrawn(Other(c))
                THEN rng = RngAdvance(rng0, Cells(Other(c)))
                     /\ Z'[c] = DrawsSecond(c)
                ELSE rng = rng0 /\ Z'[c] = DrawsAlone(c)
    ]_vars

(* both calls returned, and the second to draw did not get the values it   *)
(* would have drawn alone                                                  *)
C9_Witness ==
  /\ pc[1] = "done" /\ pc[2] = "done"
  /\ Z[1] = DrawsAlone(1)
  /\ Z[2] = DrawsSecond(2)
  /\ Z[2] # DrawsAlone(2)

---------------------------------------------------------------------------
(* C10 *)

(* cell (k, i) of the grid has been written by the generation loop *)
CellWritten(k, i) ==
  \/ pc[1] \in {"aggregate", "shape", "done"}
  \/ /\ pc[1] = "loop"
     /\ \/ k < t[1]
        \/ k = t[1] /\ (i + 1) \notin pending[1]

CellsFollowRecurrence ==
  \A k \in 1..N : \A i \in 0..(M - 1) :
    CellWritten(k, i) =>
      Price(k, i) = Mul(Price(k - 1, i), GrowthFactor(k, i))

(* C10: rows are produced in the order t = 1..numSteps; a step of the loop *)
(* writes only into row t and leaves every other row as it was; and in     *)
(* whatever order the columns of a row are written, each written cell is   *)
(* price[t-1, col] * exp(drift + sigma * sqrt(dt) * Z[t-1, col]) of its    *)
(* own column.                                                             *)
C10_ColumnsIndependent ==
  /\ []CellsFollowRecurrence
  /\ [][ /\ t'[1] \in {t[1], t[1] + 1}
         /\ pc[1] = "loop" =>
              \A r \in 1..Len(paths[1]) :
                r # t[1] + 1 => paths'[1][r] = paths[1][r]
         /\ pc[1] \in {"draw", "aggregate", "shape"} => paths'[1] = paths[1]
       ]_vars

(* the last column of a row written before the first two *)
C10_Witness ==
  /\ pc[1] = "loop" /\ M = 3 /\ t[1] = 2
  /\ pending[1] = {1, 2}
  /\ FGt(sigma, 0)
  /\ Price(2, 2) # Price(1, 2)
  /\ Z[1][2][1] # Z[1][2][3]

====
